---- MODULE Spec2Model ----
(***************************************************************************)
(* A state-machine model of the Nachos thread core of this repository:     *)
(*   threads/thread.cc    (Assignment-2)  NachOSThread                     *)
(*   threads/scheduler.cc (Assignment-1)  NachOSscheduler                  *)
(*   threads/main.cc      (Assignment-2)  the exit protocol of main        *)
(*                                                                         *)
(* One logical CPU.  A thread that gives up the CPU is suspended inside    *)
(* NachOSscheduler::Schedule at _SWITCH; pc[t] records where thread t      *)
(* continues when it is switched in again.  Code that runs with interrupts *)
(* disabled is one atomic step; the steps of JoinWithChild that run with   *)
(* interrupts enabled are separate steps.                                  *)
(***************************************************************************)
EXTENDS Integers, Sequences, FiniteSets, TLC

\* ----- program constant ---------------------------------------------------
\* The size of threadArray, which the constructor asserts against
\* (thread.cc:51).  The header that sets it is not among the sources; the
\* model takes 4, so that the capacity assertion is reachable.
MAX_THREAD_COUNT == 4

\* The base priority the constructor gives every thread (thread.cc:66); the
\* header that sets it is not among the sources.
BASE_PRIORITY == 50

\* ----- bounds of the model ------------------------------------------------
MaxReady == 5           \* bound on the number of ThreadIsReadyToRun calls of a run
MaxTicks == 2           \* bound on stats->totalTicks
MaxExitCode == 1        \* exit codes are 0..MaxExitCode
MaxBurst == 4           \* CPU bursts (cpuburst of UpdateStats) are 0..MaxBurst
MaxUpdates == 3         \* bound on the number of UpdateStats calls of a run
RatioDen == 4           \* SJP_RATIO is one of 1/RatioDen .. (RatioDen-1)/RatioDen

NULL == -1
Threads == 0 .. (MAX_THREAD_COUNT - 1)
ExitCodes == 0 .. MaxExitCode

VARIABLES
    thread_index,        \* next pid to hand out
    live,                \* pids whose NachOSThread object exists (constructed, not deleted)
    status,              \* NachOSThread::status
    ppid,                \* NachOSThread::ppid
    childpidArray,       \* per thread: sequence of child pids (length = childcount)
    exitedChild,         \* per thread: sequence of BOOLEAN, parallel to childpidArray
    childexitcode,       \* per thread: sequence of exit codes, parallel to childpidArray
    waitchild_id,        \* per thread: child slot joined on (0-based), or -1
    exitThreadArray,     \* global exitThreadArray[pid]
    currentThread,       \* global currentThread
    threadToBeDestroyed, \* global threadToBeDestroyed
    readyThreadList,     \* scheduler->readyThreadList
    sleepingThreadList,  \* scheduler->sleepingThreadList
    sleepQueueHead,      \* time-sorted wait queue: sequence of [thread, when]
    intLevel,            \* interrupt->getLevel()
    schedAlgo,           \* global schedAlgo
    prevBurst,           \* global prevBurst[pid]
    threadCpuCount,      \* global threadCpuCount[pid]
    threadPriority,      \* global threadPriority[pid]
    threadBasePriority,  \* global threadBasePriority[pid]
    burstPredict,        \* global burstPredict[pid], a fraction [n, d]
    EstimationError,     \* stats->EstimationError, a fraction [n, d]
    SJP_RATIO,           \* the smoothing constant, a fraction [n, d]
    burstPredictIsInt,   \* burstPredict is declared with an integer type
    totalTicks,          \* stats->totalTicks
    pc,                  \* per thread: where the thread continues
    joinArg,             \* per thread: argument of its JoinWithChild call in progress
    joinResult,          \* per thread: value returned by its last JoinWithChild
    idling,              \* the CPU is inside the idle loop of PutThreadToSleep / Exit
    sim,                 \* "running", "halted", or the assertion / fault / hang that ended the run
    nReady,              \* history: number of ThreadIsReadyToRun calls so far
    readySeq,            \* history: per thread, the number of the ThreadIsReadyToRun
                         \*   call that put it on the ready list (0: not waiting there)
    nDispatched,         \* history: number of dispatches by Schedule so far
    lastDispatched,      \* history: readySeq of the thread dispatched last
    nSetExit,            \* history: per thread and child slot, the number of
                         \*   SetChildExitCode calls recorded in that slot
    exitedWith,          \* history: per thread, the code it passed to Exit (or NULL)
    nUpdateStats,        \* history: per thread, the number of its UpdateStats calls
    sameBurst,           \* history: per thread, the burst of all its UpdateStats
                         \*   calls (NULL: no call yet, -2: the bursts differed)
    stack,               \* per thread: NachOSThread::stack, "NULL" or allocated
                         \*   with its sentinel "intact" or "overwritten"
    numCPUburst,         \* per thread: NachOSThread::numCPUburst
    totalCPUburst,       \* per thread: NachOSThread::totalCPUburst
    maxCPUburst,         \* per thread: NachOSThread::maxCPUburst
    minCPUburst,         \* per thread: NachOSThread::minCPUburst
    recorded,            \* history: per thread, the number, sum, smallest and
                         \*   largest of the positive bursts of its UpdateStats calls
    sleepStats,          \* model: whether the specification keeps sleepTime
                         \*   and sleepstartTime, which the code writes and
                         \*   the thread core never reads
    sleepTime,           \* per thread: NachOSThread::sleepTime
    sleepstartTime,      \* per thread: NachOSThread::sleepstartTime
    created,             \* history: for each constructor call of the run, in
                         \*   order, the pid it assigned and the currentThread
                         \*   it was called under
    unprotected,         \* history: the structures written during the last
                         \*   step while interrupts were enabled
    lastOp               \* history: the operation of the last step

vars == << thread_index, live, status, ppid, childpidArray, exitedChild,
           childexitcode, waitchild_id, exitThreadArray, currentThread,
           threadToBeDestroyed, readyThreadList, sleepingThreadList,
           sleepQueueHead, intLevel, totalTicks, pc, joinArg, joinResult,
           idling, sim, nReady, readySeq, nDispatched, lastDispatched,
           nSetExit, exitedWith, lastOp, schedAlgo, prevBurst, threadCpuCount,
           threadPriority, threadBasePriority, burstPredict, EstimationError,
           SJP_RATIO, burstPredictIsInt, nUpdateStats, sameBurst,
           unprotected, stack, numCPUburst, totalCPUburst, maxCPUburst,
           minCPUburst, recorded, created, sleepStats, sleepTime,
           sleepstartTime >>

\* The state as one record, so that the code's statement sequences compose.
\* Every step starts with nothing written yet.
St == [ thread_index |-> thread_index, live |-> live, status |-> status,
        ppid |-> ppid, childpidArray |-> childpidArray,
        exitedChild |-> exitedChild, childexitcode |-> childexitcode,
        waitchild_id |-> waitchild_id, exitThreadArray |-> exitThreadArray,
        currentThread |-> currentThread,
        threadToBeDestroyed |-> threadToBeDestroyed,
        readyThreadList |-> readyThreadList,
        sleepingThreadList |-> sleepingThreadList,
        sleepQueueHead |-> sleepQueueHead, intLevel |-> intLevel,
        totalTicks |-> totalTicks, pc |-> pc, joinArg |-> joinArg,
        joinResult |-> joinResult, idling |-> idling, sim |-> sim,
        nReady |-> nReady, readySeq |-> readySeq,
        nDispatched |-> nDispatched, lastDispatched |-> lastDispatched,
        nSetExit |-> nSetExit, exitedWith |-> exitedWith,
        schedAlgo |-> schedAlgo, prevBurst |-> prevBurst,
        threadCpuCount |-> threadCpuCount, threadPriority |-> threadPriority,
        threadBasePriority |-> threadBasePriority,
        burstPredict |-> burstPredict, EstimationError |-> EstimationError,
        SJP_RATIO |-> SJP_RATIO, burstPredictIsInt |-> burstPredictIsInt,
        nUpdateStats |-> nUpdateStats, sameBurst |-> sameBurst,
        unprotected |-> {}, stack |-> stack,
        numCPUburst |-> numCPUburst, totalCPUburst |-> totalCPUburst,
        maxCPUburst |-> maxCPUburst, minCPUburst |-> minCPUburst,
        recorded |-> recorded, created |-> created,
        sleepStats |-> sleepStats, sleepTime |-> sleepTime,
        sleepstartTime |-> sleepstartTime ]

Becomes(s, op) ==
    /\ thread_index' = s.thread_index
    /\ live' = s.live
    /\ status' = s.status
    /\ ppid' = s.ppid
    /\ childpidArray' = s.childpidArray
    /\ exitedChild' = s.exitedChild
    /\ childexitcode' = s.childexitcode
    /\ waitchild_id' = s.waitchild_id
    /\ exitThreadArray' = s.exitThreadArray
    /\ currentThread' = s.currentThread
    /\ threadToBeDestroyed' = s.threadToBeDestroyed
    /\ readyThreadList' = s.readyThreadList
    /\ sleepingThreadList' = s.sleepingThreadList
    /\ sleepQueueHead' = s.sleepQueueHead
    /\ intLevel' = s.intLevel
    /\ totalTicks' = s.totalTicks
    /\ pc' = s.pc
    /\ joinArg' = s.joinArg
    /\ joinResult' = s.joinResult
    /\ idling' = s.idling
    /\ sim' = s.sim
    /\ nReady' = s.nReady
    /\ readySeq' = s.readySeq
    /\ nDispatched' = s.nDispatched
    /\ lastDispatched' = s.lastDispatched
    /\ nSetExit' = s.nSetExit
    /\ exitedWith' = s.exitedWith
    /\ schedAlgo' = s.schedAlgo
    /\ prevBurst' = s.prevBurst
    /\ threadCpuCount' = s.threadCpuCount
    /\ threadPriority' = s.threadPriority
    /\ threadBasePriority' = s.threadBasePriority
    /\ burstPredict' = s.burstPredict
    /\ EstimationError' = s.EstimationError
    /\ SJP_RATIO' = s.SJP_RATIO
    /\ burstPredictIsInt' = s.burstPredictIsInt
    /\ nUpdateStats' = s.nUpdateStats
    /\ sameBurst' = s.sameBurst
    /\ unprotected' = s.unprotected
    /\ stack' = s.stack
    /\ numCPUburst' = s.numCPUburst
    /\ totalCPUburst' = s.totalCPUburst
    /\ maxCPUburst' = s.maxCPUburst
    /\ minCPUburst' = s.minCPUburst
    /\ recorded' = s.recorded
    /\ created' = s.created
    /\ sleepStats' = s.sleepStats
    /\ sleepTime' = s.sleepTime
    /\ sleepstartTime' = s.sleepstartTime
    /\ lastOp' = op

Op(name, t, a, b) == [op |-> name, t |-> t, a |-> a, b |-> b]

\* A write to the structure what at the current interrupt level.
Written(s, what) ==
    IF s.intLevel = "IntOn" THEN [s EXCEPT !.unprotected = @ \cup {what}] ELSE s

\* old = interrupt->SetLevel(IntOff); ... ; interrupt->SetLevel(old)
SetLevel(s, level) == [s EXCEPT !.intLevel = level]

\* ----- scheduler.cc --------------------------------------------------------

\* A ThreadIsReadyToRun that puts the thread at the head of the ready list.
ThreadIsReadyToRun_Prepend(s, thread) ==
    [Written(s, "readyThreadList")
       EXCEPT !.status[thread] = "READY",
              !.readyThreadList = << thread >> \o @,
              !.nReady = @ + 1,
              !.readySeq[thread] = s.nReady + 1]

\* NachOSscheduler::ThreadIsReadyToRun: setStatus(READY); Append to the tail.
ThreadIsReadyToRun(s, thread) ==
    [Written(s, "readyThreadList")
       EXCEPT !.status[thread] = "READY",
              !.readyThreadList = Append(@, thread),
              !.nReady = @ + 1,
              !.readySeq[thread] = s.nReady + 1]

\* NachOSscheduler::FindNextThreadToRun: the head of the ready list, or NULL.
FindNextThreadToRun(s) ==
    IF s.readyThreadList = << >> THEN NULL ELSE Head(s.readyThreadList)

\* A FindNextThreadToRun that leaves the head on the ready list.
RemoveFront_Peek(s) == s

\* The side effect of FindNextThreadToRun: List::Remove takes the head off.
RemoveFront(s) ==
    IF s.readyThreadList = << >> THEN s
    ELSE [Written(s, "readyThreadList") EXCEPT !.readyThreadList = Tail(@)]

\* Schedule's tail after _SWITCH returns: delete threadToBeDestroyed.  The
\* destructor asserts that the deleted thread is not currentThread.
DeleteThreadToBeDestroyed(s) ==
    IF s.threadToBeDestroyed = NULL THEN s
    ELSE IF s.threadToBeDestroyed = s.currentThread
         THEN [s EXCEPT !.sim = "assert_destroy_current"]
         ELSE [s EXCEPT !.live = @ \ {s.threadToBeDestroyed},
                        !.stack[s.threadToBeDestroyed] = "NULL",
                        !.threadToBeDestroyed = NULL]

\* What the thread switched in does once Schedule returns into its caller,
\* up to the point where interrupts are enabled again.
ReturnToCaller(s) ==
    LET t == s.currentThread IN
    CASE s.pc[t] = "join_ret" ->
            \* JoinWithChild after PutThreadToSleep: restore level, return code
            [s EXCEPT !.joinResult[t] = s.childexitcode[t][s.joinArg[t] + 1],
                      !.pc[t] = "run", !.intLevel = "IntOn"]
      [] s.pc[t] = "sleep_ret" ->
            [s EXCEPT !.pc[t] = "run", !.intLevel = "IntOn"]
      [] s.pc[t] = "dead" ->
            \* FinishThread / Exit: "not reached"
            [s EXCEPT !.sim = "fault"]
      [] OTHER ->
            \* YieldCPU: (void) interrupt->SetLevel(oldLevel)
            [s EXCEPT !.intLevel = "IntOn"]

\* ThreadRoot, the first frame of a forked thread (AllocateThreadStack):
\* InterruptEnable, then the forked procedure.
ThreadRoot(s) ==
    [s EXCEPT !.pc[s.currentThread] = "run", !.intLevel = "IntOn"]

\* A CheckOverflow that passes whatever the sentinel holds.
CheckOverflow_Unchecked(s, t) == s.stack[t] # "NULL" => s.stack[t] \in {"intact", "overwritten"}

\* NachOSThread::CheckOverflow of thread t: the assertion holds.
\* if (stack != NULL) ASSERT(*stack == STACK_FENCEPOST)
CheckOverflow(s, t) == s.stack[t] # "NULL" => s.stack[t] = "intact"

\* A Schedule that does not mark the dispatched thread RUNNING.
Schedule_NoSetStatus(s, nextThread) ==
    IF ~CheckOverflow(s, s.currentThread)
    THEN [s EXCEPT !.sim = "assert_stack"]
    ELSE IF nextThread \notin s.live
    THEN [s EXCEPT !.sim = "fault"]
    ELSE LET s1 == [Written(s, "currentThread")
                       EXCEPT !.currentThread = nextThread,
                             !.idling = FALSE,
                             !.nDispatched = @ + 1,
                             !.lastDispatched = s.readySeq[nextThread],
                             !.readySeq[nextThread] = 0]
         IN  IF s.pc[nextThread] = "root"
             THEN ThreadRoot(s1)
             ELSE LET s2 == DeleteThreadToBeDestroyed(s1)
                  IN  IF s2.sim # "running" THEN s2 ELSE ReturnToCaller(s2)

\* NachOSscheduler::Schedule(nextThread)
Schedule(s, nextThread) ==
    IF ~CheckOverflow(s, s.currentThread)      \* oldThread->CheckOverflow()
    THEN [s EXCEPT !.sim = "assert_stack"]
    ELSE IF nextThread \notin s.live
    THEN [s EXCEPT !.sim = "fault"]      \* a dangling NachOSThread pointer
    ELSE LET s1 == [Written(s, "currentThread")
                       EXCEPT !.currentThread = nextThread,
                             !.status[nextThread] = "RUNNING",
                             !.idling = FALSE,
                             !.nDispatched = @ + 1,
                             !.lastDispatched = s.readySeq[nextThread],
                             !.readySeq[nextThread] = 0]
         IN  IF s.pc[nextThread] = "root"
             THEN ThreadRoot(s1)
             ELSE LET s2 == DeleteThreadToBeDestroyed(s1)
                  IN  IF s2.sim # "running" THEN s2 ELSE ReturnToCaller(s2)

\* NachOSscheduler::InsertSleepingThread
InsertSleepingThread(s, thread) ==
    [Written(s, "sleepingThreadList") EXCEPT !.sleepingThreadList = Append(@, thread)]

\* A loop test that never sees the start of the scan come round.
ScanAgain_Always(start, current) == start = start

\* The test of the do-while loop of RemoveSleepingThread:
\* while(start->getPID() != current->getPID())
ScanAgain(start, current) == start # current

\* The do-while loop of RemoveSleepingThread, n iterations done so far:
\* [list, result, iters, diverges].  An iteration that neither returns nor
\* leaves the loop rotates the list by one; after Len(list) such iterations
\* the list is what it was, and the loop never ends.
RECURSIVE RotateScan(_, _, _, _)
RotateScan(list, start, thread, n) ==
    LET current == Head(list)
        rest == Tail(list)
    IN  IF current = thread
        THEN [list |-> rest, result |-> current,
              iters |-> n + 1, diverges |-> FALSE]
        ELSE IF ~ScanAgain(start, current)
             THEN [list |-> Append(rest, current), result |-> NULL,
                   iters |-> n + 1, diverges |-> FALSE]
             ELSE IF n + 1 >= Len(list)
                  THEN [list |-> Append(rest, current), result |-> NULL,
                        iters |-> n + 1, diverges |-> TRUE]
                  ELSE RotateScan(Append(rest, current), start, thread, n + 1)

\* A RemoveSleepingThread that does not put the first thread back before the
\* scan.
RemoveSleepingThread_DropsFirst(list, thread) ==
    IF list = << >>
    THEN [list |-> list, result |-> NULL, fault |-> TRUE,
          iters |-> 0, diverges |-> FALSE]
    ELSE IF Head(list) = thread
         THEN [list |-> Tail(list), result |-> thread, fault |-> FALSE,
               iters |-> 0, diverges |-> FALSE]
         ELSE IF Tail(list) = << >>
              THEN [list |-> << >>, result |-> NULL, fault |-> TRUE,
                    iters |-> 0, diverges |-> FALSE]
              ELSE LET r == RotateScan(Tail(list), Head(list), thread, 0)
                   IN  [list |-> r.list, result |-> r.result, fault |-> FALSE,
                        iters |-> r.iters, diverges |-> r.diverges]

\* NachOSscheduler::RemoveSleepingThread: [list, result, fault, iters, diverges].
RemoveSleepingThread(list, thread) ==
    IF list = << >>
    THEN [list |-> list, result |-> NULL, fault |-> TRUE,   \* NULL->getPID()
          iters |-> 0, diverges |-> FALSE]
    ELSE IF Head(list) = thread
         THEN [list |-> Tail(list), result |-> thread, fault |-> FALSE,
               iters |-> 0, diverges |-> FALSE]
         ELSE LET r == RotateScan(Append(Tail(list), Head(list)), Head(list), thread, 0)
              IN  [list |-> r.list, result |-> r.result, fault |-> FALSE,
                   iters |-> r.iters, diverges |-> r.diverges]

\* ----- thread.cc -----------------------------------------------------------

\* RegisterNewChild(childpid) on thread p: a new child slot, not yet exited.
RegisterNewChild(s, p, childpid) ==
    [s EXCEPT !.childpidArray[p] = Append(@, childpid),
              !.exitedChild[p] = Append(@, FALSE),
              !.childexitcode[p] = Append(@, NULL),
              !.nSetExit[p] = Append(@, 0)]

\* A constructor that takes the lowest slot no thread object occupies.
NextPid_FreeSlot(s) ==
    LET free == (0 .. (s.thread_index - 1)) \ s.live
    IN  IF free = {} THEN s.thread_index
        ELSE CHOOSE p \in free : \A q \in free : p <= q

\* The constructor's pid = thread_index.
NextPid(s) == s.thread_index

\* A constructor that registers every new thread with the main thread.
NewThread_ChildOfMain(s) ==
    LET p == s.thread_index
        s1 == [s EXCEPT !.status[p] = "JUST_CREATED",
                        !.live = @ \cup {p},
                        !.thread_index = p + 1]
    IN  IF ~(p + 1 < MAX_THREAD_COUNT)
        THEN [s1 EXCEPT !.sim = "assert_thread_count"]
        ELSE LET s2 == [s1 EXCEPT !.ppid[p] = s.currentThread,
                                  !.childpidArray[p] = << >>,
                                  !.exitedChild[p] = << >>,
                                  !.childexitcode[p] = << >>,
                                  !.waitchild_id[p] = -1,
                                  !.threadBasePriority[p] = BASE_PRIORITY,
                                  !.threadPriority[p] = BASE_PRIORITY,
                                  !.pc[p] = "root"]
             IN  RegisterNewChild(s2, 0, p)

\* NachOSThread::NachOSThread
NewThread(s) ==
    LET p == NextPid(s)
        s1 == [s EXCEPT !.status[p] = "JUST_CREATED",
                        !.live = @ \cup {p},
                        !.thread_index = s.thread_index + 1,
                        !.created = Append(@, [pid |-> p,
                                               creator |-> s.currentThread])]
    IN  IF ~(p + 1 < MAX_THREAD_COUNT)
        THEN [s1 EXCEPT !.sim = "assert_thread_count"]
        ELSE LET s2 == [s1 EXCEPT !.ppid[p] = s.currentThread,
                                  !.childpidArray[p] = << >>,
                                  !.exitedChild[p] = << >>,
                                  !.childexitcode[p] = << >>,
                                  !.waitchild_id[p] = -1,
                                  !.threadBasePriority[p] = BASE_PRIORITY,
                                  !.threadPriority[p] = BASE_PRIORITY,
                                  !.pc[p] = "root"]
             IN  IF s.currentThread # NULL
                 THEN RegisterNewChild(s2, s.currentThread, p)
                 ELSE s2

\* NachOSThread::ThreadFork: AllocateThreadStack, then ThreadIsReadyToRun
\* between SetLevel(IntOff) and SetLevel(oldLevel).
AllocateThreadStack(s, t) == [s EXCEPT !.stack[t] = "intact"]

ThreadFork(s, t) ==
    LET s1 == AllocateThreadStack(s, t)
    IN  SetLevel(ThreadIsReadyToRun(SetLevel(s1, "IntOff"), t), s.intLevel)

\* NachOSThread::PutThreadToSleep; cont is where the caller continues when
\* the call returns.
PutThreadToSleep(s, cont) ==
    LET t == s.currentThread IN
    IF s.intLevel # "IntOff"
    THEN [s EXCEPT !.sim = "assert_int_off"]
    ELSE LET s1 == [s EXCEPT !.sleepstartTime[t] =
                                 IF s.sleepStats THEN s.totalTicks ELSE @,
                             !.status[t] = "BLOCKED", !.pc[t] = cont]
             nextThread == FindNextThreadToRun(s1)
         IN  IF nextThread = NULL
             THEN [s1 EXCEPT !.idling = TRUE]         \* interrupt->Idle()
             ELSE Schedule(RemoveFront(s1), nextThread)

\* NachOSThread::YieldCPU
YieldCPU(s) ==
    LET s1 == ThreadIsReadyToRun([s EXCEPT !.intLevel = "IntOff"], s.currentThread)
    IN  Schedule(RemoveFront(s1), FindNextThreadToRun(s1))

\* A FinishThread that gives up the CPU through YieldCPU.
FinishThread_Yields(s) ==
    YieldCPU([s EXCEPT !.threadToBeDestroyed = s.currentThread,
                       !.pc[s.currentThread] = "dead"])

\* NachOSThread::FinishThread
FinishThread(s) ==
    PutThreadToSleep([s EXCEPT !.intLevel = "IntOff",
                               !.threadToBeDestroyed = s.currentThread],
                     "dead")

\* A slot search that stops at the first slot whatever its pid.
ChildSlot_First(s, p, childpid) ==
    IF Len(s.childpidArray[p]) = 0 THEN 1 ELSE 1

\* The child slot SetChildExitCode finds (1-based; childcount + 1 if none).
ChildSlot(s, p, childpid) ==
    LET n == Len(s.childpidArray[p])
        hits == {i \in 1..n : s.childpidArray[p][i] = childpid}
    IN  IF hits = {} THEN n + 1
        ELSE CHOOSE i \in hits : \A j \in hits : i <= j

\* A SetChildExitCode that wakes the parent without testing waitchild_id.
SetChildExitCode_AlwaysWakes(s, p, childpid, ecode) ==
    LET i == ChildSlot(s, p, childpid) IN
    IF ~(i <= Len(s.childpidArray[p]))
    THEN [s EXCEPT !.sim = "assert_child"]
    ELSE ThreadIsReadyToRun([s EXCEPT !.childexitcode[p][i] = ecode,
                                      !.exitedChild[p][i] = TRUE,
                                      !.nSetExit[p][i] = @ + 1,
                                      !.waitchild_id[p] = -1], p)

\* NachOSThread::SetChildExitCode, called on thread p.
SetChildExitCode(s, p, childpid, ecode) ==
    LET i == ChildSlot(s, p, childpid) IN
    IF ~(i <= Len(s.childpidArray[p]))
    THEN [s EXCEPT !.sim = "assert_child"]
    ELSE LET s1 == [Written(s, "childexitcode")
                       EXCEPT !.childexitcode[p][i] = ecode,
                             !.exitedChild[p][i] = TRUE,
                             !.nSetExit[p][i] = @ + 1]
         IN  IF s1.waitchild_id[p] = i - 1
             THEN LET s2 == [Written(s1, "waitchild_id") EXCEPT !.waitchild_id[p] = -1]
                  IN  SetLevel(ThreadIsReadyToRun(SetLevel(s2, "IntOff"), p),
                               s2.intLevel)
             ELSE s1

\* NachOSThread::Exit, up to the parent's notification.  dangling decides
\* what the call through a pointer to a deleted parent does: a fault, or a
\* write into the stale object.
ExitNotify(s, exitcode, dangling) ==
    LET t == s.currentThread
        s1 == [s EXCEPT !.intLevel = "IntOff",
                        !.threadToBeDestroyed = t,
                        !.status[t] = "BLOCKED",
                        !.pc[t] = "dead",
                        !.exitedWith[t] = exitcode]
        p == s1.ppid[t]
    IN  IF p # -1 /\ ~s1.exitThreadArray[p]
        THEN IF p \in s1.live
             THEN SetChildExitCode(s1, p, t, exitcode)
             ELSE IF dangling = "fault"
                  THEN [s1 EXCEPT !.sim = "fault"]
                  ELSE [SetChildExitCode(s1, p, t, exitcode)
                           EXCEPT !.nSetExit = s1.nSetExit]
        ELSE s1

\* An Exit loop that halts whenever no thread is ready.
ExitSwitch_AlwaysHalts(s, terminateSim) ==
    LET nextThread == FindNextThreadToRun(s)
    IN  IF nextThread = NULL
        THEN [s EXCEPT !.sim = "halted"]
        ELSE Schedule(RemoveFront(s), nextThread)

\* NachOSThread::Exit, the loop that finds the successor and the dispatch.
ExitSwitch(s, terminateSim) ==
    LET nextThread == FindNextThreadToRun(s)
    IN  IF nextThread = NULL
        THEN IF terminateSim
             THEN [s EXCEPT !.sim = "halted"]      \* interrupt->Halt()
             ELSE [s EXCEPT !.idling = TRUE]       \* interrupt->Idle()
        ELSE Schedule(RemoveFront(s), nextThread)

\* NachOSThread::Exit
Exit(s, terminateSim, exitcode, dangling) ==
    LET s2 == ExitNotify(s, exitcode, dangling)
    IN  IF s2.sim # "running" THEN s2 ELSE ExitSwitch(s2, terminateSim)

\* A JoinWithChild that goes to sleep without testing exitedChild.
JoinWithChild_AlwaysSleeps(s, whichchild) ==
    [s EXCEPT !.joinArg[s.currentThread] = whichchild,
              !.pc[s.currentThread] = "join_set"]

\* NachOSThread::JoinWithChild, the test of exitedChild: return the recorded
\* code at once, or go on to set waitchild_id and sleep.
JoinWithChild(s, whichchild) ==
    LET t == s.currentThread
        s1 == [s EXCEPT !.joinArg[t] = whichchild]
    IN  IF ~s.exitedChild[t][whichchild + 1]
        THEN [s1 EXCEPT !.pc[t] = "join_set"]
        ELSE [s1 EXCEPT !.joinResult[t] = s.childexitcode[t][whichchild + 1]]

\* JoinWithChild: waitchild_id = whichchild
JoinSetWaiting(s) ==
    LET t == s.currentThread
    IN  [Written(s, "waitchild_id")
           EXCEPT !.waitchild_id[t] = s.joinArg[t], !.pc[t] = "join_sleep"]

\* JoinWithChild: SetLevel(IntOff); PutThreadToSleep(); on return the level
\* is restored and childexitcode[whichchild] returned (ReturnToCaller).
JoinSleep(s) ==
    PutThreadToSleep([s EXCEPT !.intLevel = "IntOff"], "join_ret")

\* NachOSscheduler::Tail: the clean-up a forked thread runs when it starts.
SchedulerTail(s) == DeleteThreadToBeDestroyed(s)

\* NachOSThread::Startup
Startup(s) == SchedulerTail(s)

\* NachOSThread::Schedule: add the time slept if the thread was blocked, then
\* put this thread on the ready list.
ThreadSchedule(s, t) ==
    LET s1 == IF s.sleepStats /\ s.status[t] = "BLOCKED"
              THEN [s EXCEPT !.sleepTime[t] =
                                 @ + (s.totalTicks - s.sleepstartTime[t])]
              ELSE s
    IN  SetLevel(ThreadIsReadyToRun(SetLevel(s1, "IntOff"), t), s.intLevel)

\* A search that stops at the first entry whose deadline is not smaller.
InsertPos_BeforeEqual(q, when) ==
    LET later == {i \in 1..Len(q) : q[i].when >= when}
    IN  IF later = {} THEN Len(q) + 1
        ELSE CHOOSE i \in later : \A j \in later : i <= j

\* The position at which SortedInsertInWaitQueue links the new entry: before
\* the first entry whose deadline is greater than when.
InsertPos(q, when) ==
    LET later == {i \in 1..Len(q) : q[i].when > when}
    IN  IF later = {} THEN Len(q) + 1
        ELSE CHOOSE i \in later : \A j \in later : i <= j

\* NachOSThread::SortedInsertInWaitQueue
SortedInsertInWaitQueue(s, when) ==
    LET t == s.currentThread
        q == s.sleepQueueHead
        k == InsertPos(q, when)
        q1 == SubSeq(q, 1, k - 1) \o << [thread |-> t, when |-> when] >>
                 \o SubSeq(q, k, Len(q))
    IN  PutThreadToSleep(SetLevel([Written(s, "sleepQueueHead")
                                      EXCEPT !.sleepQueueHead = q1,
                                             !.sleepstartTime[t] =
                                                 IF s.sleepStats THEN s.totalTicks
                                                 ELSE @],
                                  "IntOff"),
                         "sleep_ret")

\* ----- thread.cc: UpdateStats ------------------------------------------------

\* The arithmetic of the prediction: non-negative fractions [n, d], d > 0.
Frac(n, d) == [n |-> n, d |-> d]

RECURSIVE Gcd(_, _)
Gcd(a, b) == IF b = 0 THEN a ELSE Gcd(b, a % b)

Norm(x) ==
    IF x.n = 0 THEN Frac(0, 1)
    ELSE LET g == Gcd(x.n, x.d) IN Frac(x.n \div g, x.d \div g)

FracAdd(x, y) == Norm(Frac(x.n * y.d + y.n * x.d, x.d * y.d))
FracSub(x, y) == Norm(Frac(x.n * y.d - y.n * x.d, x.d * y.d))   \* x >= y
FracMul(x, y) == Norm(Frac(x.n * y.n, x.d * y.d))
FracLess(x, y) == x.n * y.d < y.n * x.d
FracDist(x, y) == IF FracLess(x, y) THEN FracSub(y, x) ELSE FracSub(x, y)

\* The conversion of the assignment to burstPredict[]: an integer element
\* drops the fraction, a floating element keeps the value.
StorePredict(isInt, x) == IF isInt THEN Frac(x.n \div x.d, 1) ELSE Norm(x)

\* A decay that adds the last burst without halving.
DecayCpuCount_NoHalving(cpuCount, lastBurst) == cpuCount + lastBurst

\* threadCpuCount[i] = (threadCpuCount[i] + prevBurst[i])/2
DecayCpuCount(cpuCount, lastBurst) == (cpuCount + lastBurst) \div 2

\* A prediction with the two weights exchanged.
Predict_SwappedWeights(ratio, predicted, lastBurst) ==
    FracAdd(FracMul(ratio, predicted),
            FracMul(FracSub(Frac(1, 1), ratio), Frac(lastBurst, 1)))

\* (1-SJP_RATIO)*burstPredict[pid] + (SJP_RATIO)*prevBurst[pid]
Predict(ratio, predicted, lastBurst) ==
    FracAdd(FracMul(FracSub(Frac(1, 1), ratio), predicted),
            FracMul(ratio, Frac(lastBurst, 1)))

\* The loop of the decay-priority policies over every thread slot.
DecayAll(s) ==
    LET folded(i) == /\ ~s.exitThreadArray[i]
                     /\ s.prevBurst[i] >= 0
                     /\ s.threadBasePriority[i] # 0
        count(i) == DecayCpuCount(s.threadCpuCount[i], s.prevBurst[i])
    IN  [s EXCEPT
           !.threadCpuCount = [i \in Threads |->
                IF folded(i) THEN count(i) ELSE s.threadCpuCount[i]],
           !.threadPriority = [i \in Threads |->
                IF folded(i) THEN s.threadBasePriority[i] + count(i) \div 2
                ELSE s.threadPriority[i]],
           !.prevBurst = [i \in Threads |->
                IF folded(i) THEN 0 ELSE s.prevBurst[i]]]

\* The branch of the shortest-job-prediction policy.
PredictNext(s, cpuburst) ==
    LET t == s.currentThread
        burst == Frac(cpuburst, 1)
    IN  [s EXCEPT
           !.EstimationError = FracAdd(@, FracDist(s.burstPredict[t], burst)),
           !.burstPredict[t] =
               StorePredict(s.burstPredictIsInt,
                            Predict(s.SJP_RATIO, s.burstPredict[t], s.prevBurst[t]))]

\* The positive bursts of a thread so far: none yet, or their number, sum,
\* smallest and largest.
NoBursts == [n |-> 0, sum |-> 0, min |-> 0, max |-> 0]

Record(r, cpuburst) ==
    IF r.n = 0
    THEN [n |-> 1, sum |-> cpuburst, min |-> cpuburst, max |-> cpuburst]
    ELSE [n |-> r.n + 1, sum |-> r.sum + cpuburst,
          min |-> IF cpuburst < r.min THEN cpuburst ELSE r.min,
          max |-> IF cpuburst > r.max THEN cpuburst ELSE r.max]

\* A burst record that tests the maximum and the minimum independently.
BurstStats_BothTests(s, cpuburst) ==
    LET t == s.currentThread
    IN  [s EXCEPT !.prevBurst[t] = cpuburst,
                  !.numCPUburst[t] = @ + 1,
                  !.totalCPUburst[t] = @ + cpuburst,
                  !.maxCPUburst[t] = IF cpuburst > @ THEN cpuburst ELSE @,
                  !.minCPUburst[t] = IF cpuburst < @ THEN cpuburst ELSE @,
                  !.recorded[t] = Record(@, cpuburst)]

\* UpdateStats, the body of if (cpuburst > 0):
\* if (cpuburst > maxCPUburst) maxCPUburst = cpuburst;
\* else if (cpuburst < minCPUburst) minCPUburst = cpuburst;
BurstStats(s, cpuburst) ==
    LET t == s.currentThread
    IN  [s EXCEPT !.prevBurst[t] = cpuburst,
                  !.numCPUburst[t] = @ + 1,
                  !.totalCPUburst[t] = @ + cpuburst,
                  !.maxCPUburst[t] = IF cpuburst > @ THEN cpuburst ELSE @,
                  !.minCPUburst[t] =
                      IF ~(cpuburst > s.maxCPUburst[t]) /\ cpuburst < @
                      THEN cpuburst ELSE @,
                  !.recorded[t] = Record(@, cpuburst)]

\* NachOSThread::UpdateStats of the current thread; cpuburst is
\* stats->totalTicks - prevstartTime, the length of the run segment that ends.
UpdateStats(s, cpuburst) ==
    LET t == s.currentThread
        s1 == [s EXCEPT !.nUpdateStats[t] = @ + 1,
                        !.sameBurst[t] = IF @ \in {NULL, cpuburst}
                                         THEN cpuburst ELSE -2]
        s2 == IF cpuburst > 0 THEN BurstStats(s1, cpuburst) ELSE s1
    IN  IF s.schedAlgo >= 7 THEN DecayAll(s2)
        ELSE IF s.schedAlgo = 2 THEN PredictNext(s2, cpuburst)
        ELSE s2

\* ----- the timer interrupt handler (external collaborator) -----------------

\* Dequeue every head entry whose deadline has elapsed and make its thread
\* ready through NachOSThread::Schedule.
RECURSIVE WakeDue(_)
WakeDue(s) ==
    IF s.sleepQueueHead # << >> /\ Head(s.sleepQueueHead).when <= s.totalTicks
    THEN WakeDue(ThreadSchedule([Written(s, "sleepQueueHead")
                                    EXCEPT !.sleepQueueHead = Tail(@)],
                                Head(s.sleepQueueHead).thread))
    ELSE s

\* Interrupt handlers run with interrupts disabled.
TimerInterruptHandler(s) ==
    SetLevel(WakeDue(SetLevel([s EXCEPT !.totalTicks = @ + 1], "IntOff")),
             s.intLevel)

\* ----- initial state: system.cc has created the main thread ----------------

\* Every variable of the thread core but the sleeping list.
InitThreads ==
    /\ thread_index = 1
    /\ live = {0}
    /\ status = [t \in Threads |-> IF t = 0 THEN "RUNNING" ELSE "NONE"]
    /\ ppid = [t \in Threads |-> -1]
    /\ childpidArray = [t \in Threads |-> << >>]
    /\ exitedChild = [t \in Threads |-> << >>]
    /\ childexitcode = [t \in Threads |-> << >>]
    /\ waitchild_id = [t \in Threads |-> -1]
    /\ exitThreadArray = [t \in Threads |-> FALSE]
    /\ currentThread = 0
    /\ threadToBeDestroyed = NULL
    /\ readyThreadList = << >>
    /\ sleepQueueHead = << >>
    /\ intLevel = "IntOn"
    /\ totalTicks = 0
    /\ pc = [t \in Threads |-> IF t = 0 THEN "run" ELSE "none"]
    /\ joinArg = [t \in Threads |-> -1]
    /\ joinResult = [t \in Threads |-> NULL]
    /\ idling = FALSE
    /\ sim = "running"
    /\ nReady = 0
    /\ readySeq = [t \in Threads |-> 0]
    /\ nDispatched = 0
    /\ lastDispatched = 0
    /\ nSetExit = [t \in Threads |-> << >>]
    /\ exitedWith = [t \in Threads |-> NULL]
    /\ created = << [pid |-> 0, creator |-> NULL] >>
    /\ sleepstartTime = [t \in Threads |-> 0]
    /\ unprotected = {}
    /\ stack = [t \in Threads |-> "NULL"]
    /\ lastOp = Op("Init", NULL, 0, 0)

\* The scheduling policy and the statistics before any thread has run; the
\* fractions are [n, d] with d > 0.
InitPolicy ==
    /\ schedAlgo = 0
    /\ SJP_RATIO = [n |-> 1, d |-> 2]
    /\ burstPredictIsInt = TRUE
    /\ burstPredict = [t \in Threads |-> [n |-> 0, d |-> 1]]

\* The constructor does not initialise the burst statistics of a thread
\* (thread.cc:35-70): they start with what the memory of the object holds.
InitBurstStats(count, total, max, min) ==
    /\ numCPUburst = [t \in Threads |-> count]
    /\ totalCPUburst = [t \in Threads |-> total]
    /\ maxCPUburst = [t \in Threads |-> max]
    /\ minCPUburst = [t \in Threads |-> min]
    /\ recorded = [t \in Threads |-> NoBursts]

\* The sleep statistics left out.
NoSleepStats ==
    /\ sleepStats = FALSE
    /\ sleepTime = [t \in Threads |-> 0]

\* The sleep statistics kept.  The constructor does not initialise sleepTime,
\* to which NachOSThread::Schedule adds.
InitSleepTime(values) ==
    /\ sleepStats = TRUE
    /\ sleepTime \in [Threads -> values]

InitStatistics ==
    /\ prevBurst = [t \in Threads |-> 0]
    /\ threadCpuCount = [t \in Threads |-> 0]
    /\ threadPriority = [t \in Threads |-> IF t = 0 THEN BASE_PRIORITY ELSE 0]
    /\ threadBasePriority = [t \in Threads |-> IF t = 0 THEN BASE_PRIORITY ELSE 0]
    /\ EstimationError = [n |-> 0, d |-> 1]
    /\ nUpdateStats = [t \in Threads |-> 0]
    /\ sameBurst = [t \in Threads |-> NULL]

Init ==
    /\ InitThreads
    /\ sleepingThreadList = << >>
    /\ InitPolicy
    /\ InitStatistics
    /\ InitBurstStats(0, 0, 0, 0)
    /\ NoSleepStats

\* ----- actions ---------------------------------------------------------------

\* The current thread is executing its own code, between two calls.
Running ==
    /\ sim = "running"
    /\ ~idling
    /\ nReady < MaxReady
    /\ pc[currentThread] = "run"

DoNewThread ==
    /\ Running
    /\ Becomes(NewThread(St), Op("NewThread", currentThread, thread_index, 0))

DoThreadFork ==
    /\ Running
    /\ \E t \in live :
          /\ status[t] = "JUST_CREATED"
          /\ Becomes(ThreadFork(St, t), Op("ThreadFork", currentThread, t, 0))

\* The forked procedure calls Startup.
DoStartup ==
    /\ Running
    /\ threadToBeDestroyed # NULL
    /\ Becomes(Startup(St), Op("Startup", currentThread, 0, 0))

DoYieldCPU ==
    /\ Running
    /\ Becomes(YieldCPU(St), Op("YieldCPU", currentThread, 0, 0))

DoFinishThread ==
    /\ Running
    /\ Becomes(FinishThread(St), Op("FinishThread", currentThread, 0, 0))

\* What Exit's call through threadArray[ppid] can do: if the parent's object
\* has been deleted, fault or write into the stale object.
Dangling ==
    IF ppid[currentThread] # -1 /\ ppid[currentThread] \notin live
    THEN {"fault", "stale"}
    ELSE {"stale"}

\* A direct call of NachOSThread::Exit.
DoExit ==
    /\ Running
    /\ \E terminateSim \in BOOLEAN, exitcode \in ExitCodes, dangling \in Dangling :
          Becomes(Exit(St, terminateSim, exitcode, dangling),
                  Op("Exit", currentThread, exitcode, IF terminateSim THEN 1 ELSE 0))

\* The exit protocol of main.cc: mark exitThreadArray, terminate if every
\* thread has called Exit.
DoSysExit ==
    /\ Running
    /\ \E exitcode \in ExitCodes, dangling \in Dangling :
          LET s1 == [St EXCEPT !.exitThreadArray[currentThread] = TRUE]
              all == \A i \in 0 .. (thread_index - 1) : s1.exitThreadArray[i]
          IN  Becomes(Exit(s1, all, exitcode, dangling),
                      Op("Exit", currentThread, exitcode, IF all THEN 1 ELSE 0))

\* JoinWithChild called by the current thread.
DoJoinWithChild ==
    /\ Running
    /\ \E whichchild \in 0 .. (Len(childpidArray[currentThread]) - 1) :
          Becomes(JoinWithChild(St, whichchild),
                  Op("JoinWithChild", currentThread, whichchild,
                     IF exitedChild[currentThread][whichchild + 1] THEN 1 ELSE 0))

\* JoinWithChild: waitchild_id = whichchild
DoJoinSet ==
    /\ sim = "running" /\ ~idling
    /\ pc[currentThread] = "join_set"
    /\ Becomes(JoinSetWaiting(St), Op("JoinSet", currentThread, joinArg[currentThread], 0))

\* JoinWithChild: SetLevel(IntOff); PutThreadToSleep()
DoJoinSleep ==
    /\ sim = "running" /\ ~idling
    /\ pc[currentThread] = "join_sleep"
    /\ Becomes(JoinSleep(St), Op("JoinSleep", currentThread, joinArg[currentThread], 0))

DoSortedInsertInWaitQueue ==
    /\ Running
    /\ \E when \in (totalTicks + 1) .. MaxTicks :
          Becomes(SortedInsertInWaitQueue(St, when),
                  Op("SortedInsertInWaitQueue", currentThread, when, 0))

\* A caller of PutThreadToSleep that waits in the sleeping set.
DoSleepOnSet ==
    /\ Running
    /\ Becomes(PutThreadToSleep(
                  InsertSleepingThread([St EXCEPT !.intLevel = "IntOff"], currentThread),
                  "sleep_ret"),
               Op("SleepOnSet", currentThread, 0, 0))

\* A caller that takes thread t out of the sleeping set and makes it ready.
DoWakeFromSet ==
    /\ Running
    /\ \E t \in live :
          LET r == RemoveSleepingThread(sleepingThreadList, t)
              s0 == Written(SetLevel(St, "IntOff"), "sleepingThreadList")
              s1 == SetLevel([s0 EXCEPT !.sleepingThreadList = r.list], intLevel)
          IN  Becomes(IF r.fault THEN [s1 EXCEPT !.sim = "fault"]
                      ELSE IF r.diverges THEN [s1 EXCEPT !.sim = "hang"]
                      ELSE IF r.result = NULL THEN s1
                      ELSE ThreadSchedule(s1, r.result),
                      Op("WakeFromSet", currentThread, t, r.result))

\* A timer interrupt while a thread runs with interrupts enabled.
DoTimerInterrupt ==
    /\ Running
    /\ totalTicks < MaxTicks
    /\ Becomes(TimerInterruptHandler(St), Op("Timer", currentThread, 0, 0))

\* One iteration of the idle loop of PutThreadToSleep / Exit:
\* interrupt->Idle() lets the timer interrupt run, then FindNextThreadToRun.
DoIdle ==
    /\ sim = "running"
    /\ idling
    /\ totalTicks < MaxTicks
    /\ nReady < MaxReady
    /\ LET s1 == TimerInterruptHandler(St)
           nextThread == FindNextThreadToRun(s1)
       IN  Becomes(IF nextThread = NULL THEN s1
                   ELSE Schedule(RemoveFront(s1), nextThread),
                   Op("Idle", currentThread, 0, 0))

Next ==
    \/ DoNewThread
    \/ DoThreadFork
    \/ DoStartup
    \/ DoYieldCPU
    \/ DoFinishThread
    \/ DoExit
    \/ DoSysExit
    \/ DoJoinWithChild
    \/ DoJoinSet
    \/ DoJoinSleep
    \/ DoSortedInsertInWaitQueue
    \/ DoSleepOnSet
    \/ DoWakeFromSet
    \/ DoTimerInterrupt
    \/ DoIdle

Spec == Init /\ [][Next]_vars

\* ----- timer-driven hand-off inside an interrupts-enabled window -----------

\* The timer interrupt fires while the current thread is between two
\* statements of JoinWithChild that run with interrupts enabled, and the
\* interrupted thread yields the CPU on return from the handler.
DoTimerYield ==
    /\ sim = "running" /\ ~idling
    /\ nReady < MaxReady
    /\ intLevel = "IntOn"
    /\ pc[currentThread] \in {"join_set", "join_sleep"}
    /\ Becomes(YieldCPU(St), Op("TimerYield", currentThread, 0, 0))

NextPreempt == Next \/ DoTimerYield

SpecPreempt == Init /\ [][NextPreempt]_vars

\* ----- RemoveSleepingThread on every sleeping set ------------------------------

\* The sequences over S in which no element occurs twice.
RECURSIVE NoDupSeqs(_)
NoDupSeqs(S) ==
    {<< >>} \cup UNION {{<< x >> \o q : q \in NoDupSeqs(S \ {x})} : x \in S}

\* The sleeping list holds any threads, each once, in any order.
InitSleepingSet ==
    /\ InitThreads
    /\ sleepingThreadList \in NoDupSeqs(Threads)
    /\ InitPolicy
    /\ InitStatistics
    /\ InitBurstStats(0, 0, 0, 0)
    /\ NoSleepStats

\* One call of RemoveSleepingThread(thread).
DoRemoveSleepingThread ==
    /\ sim = "running"
    /\ \E thread \in Threads :
          LET r == RemoveSleepingThread(sleepingThreadList, thread)
              s1 == [St EXCEPT !.sleepingThreadList = r.list]
          IN  Becomes(IF r.fault THEN [s1 EXCEPT !.sim = "fault"]
                      ELSE IF r.diverges THEN [s1 EXCEPT !.sim = "hang"]
                      ELSE s1,
                      Op("RemoveSleepingThread", thread, r.result, r.iters))

\* One call of InsertSleepingThread(thread) for a thread that is not asleep.
DoInsertSleepingThread ==
    /\ sim = "running"
    /\ \E thread \in Threads :
          /\ \A i \in 1..Len(sleepingThreadList) : sleepingThreadList[i] # thread
          /\ Becomes(InsertSleepingThread(St, thread),
                     Op("InsertSleepingThread", thread, 0, 0))

NextSleepingSet == DoRemoveSleepingThread \/ DoInsertSleepingThread

SpecSleepingSet == InitSleepingSet /\ [][NextSleepingSet]_vars

\* ----- the statistics of the run segments --------------------------------------

\* main.cc reads the policy before the first thread runs: a FIFO policy, the
\* shortest-job prediction or a decay-priority policy.
InitStats ==
    /\ InitThreads
    /\ sleepingThreadList = << >>
    /\ schedAlgo \in {1, 2, 7}
    /\ SJP_RATIO = Frac(1, 2)
    /\ burstPredictIsInt = TRUE
    /\ burstPredict = [t \in Threads |-> Frac(0, 1)]
    /\ InitStatistics
    /\ InitBurstStats(0, 0, 0, 0)
    /\ NoSleepStats

\* The current thread is executing its own code; UpdateStats calls are left.
Segment ==
    /\ sim = "running"
    /\ ~idling
    /\ pc[currentThread] = "run"

RECURSIVE SumOver(_, _)
SumOver(f, S) ==
    IF S = {} THEN 0
    ELSE LET x == CHOOSE y \in S : TRUE IN f[x] + SumOver(f, S \ {x})

\* The number of UpdateStats calls of the run so far.
UpdatesSoFar == SumOver(nUpdateStats, Threads)

DoSegmentNewThread ==
    /\ Segment
    /\ thread_index + 1 < MAX_THREAD_COUNT
    /\ Becomes(NewThread(St), Op("NewThread", currentThread, thread_index, 0))

DoSegmentThreadFork ==
    /\ Segment
    /\ \E t \in live :
          /\ status[t] = "JUST_CREATED"
          /\ Becomes(ThreadFork(St, t), Op("ThreadFork", currentThread, t, 0))

\* A run segment of cpuburst ticks that ends in YieldCPU: UpdateStats, then
\* the hand-off.
DoSegmentYieldCPU ==
    /\ Segment
    /\ UpdatesSoFar < MaxUpdates
    /\ \E cpuburst \in 0..MaxBurst :
          Becomes(YieldCPU(UpdateStats(St, cpuburst)),
                  Op("UpdateStats", currentThread, cpuburst, 0))

\* A run segment that ends in the exit protocol of main.cc: the thread is
\* marked in exitThreadArray, then Exit calls UpdateStats.
DoSegmentExit ==
    /\ Segment
    /\ UpdatesSoFar < MaxUpdates
    /\ \E cpuburst \in 0..MaxBurst :
          LET s1 == [St EXCEPT !.exitThreadArray[currentThread] = TRUE]
              all == \A i \in 0 .. (thread_index - 1) : s1.exitThreadArray[i]
          IN  Becomes(Exit(UpdateStats(s1, cpuburst), all, 0, "fault"),
                      Op("UpdateStats", currentThread, cpuburst, 1))

NextStats ==
    \/ DoSegmentNewThread
    \/ DoSegmentThreadFork
    \/ DoSegmentYieldCPU
    \/ DoSegmentExit

SpecStats == InitStats /\ [][NextStats]_vars

\* ----- the prediction of one thread's bursts ------------------------------------

\* The shortest-job-prediction policy with any smoothing constant strictly
\* between 0 and 1, either element type of burstPredict[] and any initial
\* prediction; the main thread runs segment after segment.
InitPredict ==
    /\ InitThreads
    /\ sleepingThreadList = << >>
    /\ schedAlgo = 2
    /\ \E k \in 1..(RatioDen - 1) : SJP_RATIO = Norm(Frac(k, RatioDen))
    /\ burstPredictIsInt \in BOOLEAN
    /\ \E p0 \in 0..MaxBurst : burstPredict = [t \in Threads |-> Frac(p0, 1)]
    /\ InitStatistics
    /\ InitBurstStats(0, 0, 0, 0)
    /\ NoSleepStats

NextPredict == DoSegmentYieldCPU \/ DoSegmentExit

SpecPredict == InitPredict /\ [][NextPredict]_vars

\* ----- the decay-priority policy with base priorities --------------------------------

\* The base priorities given to threads: none, a small one, the default.
BasePriorities == {0, BASE_PRIORITY \div 10, BASE_PRIORITY}

\* A decay-priority policy.
InitDecay ==
    /\ InitThreads
    /\ sleepingThreadList = << >>
    /\ schedAlgo = 7
    /\ SJP_RATIO = Frac(1, 2)
    /\ burstPredictIsInt = TRUE
    /\ burstPredict = [t \in Threads |-> Frac(0, 1)]
    /\ InitStatistics
    /\ InitBurstStats(0, 0, 0, 0)
    /\ NoSleepStats

\* The creator gives the thread it has created a base priority before it
\* forks it.
SetBasePriority(s, t, priority) == [s EXCEPT !.threadBasePriority[t] = priority]

DoSetBasePriority ==
    /\ Segment
    /\ \E t \in live, priority \in BasePriorities :
          /\ status[t] = "JUST_CREATED"
          /\ threadBasePriority[t] = BASE_PRIORITY
          /\ priority # BASE_PRIORITY
          /\ Becomes(SetBasePriority(St, t, priority),
                     Op("SetBasePriority", currentThread, t, priority))

NextDecay == NextStats \/ DoSetBasePriority

SpecDecay == InitDecay /\ [][NextDecay]_vars

\* ----- the burst statistics of one thread -----------------------------------------

\* Values an uninitialised unsigned field may hold: zero, a value among the
\* bursts, a value above every burst.
Indeterminate == {0, MaxBurst \div 2, 2 * MaxBurst}

\* A FIFO policy; the main thread runs segment after segment, its burst
\* statistics starting from indeterminate values.
InitBurst ==
    /\ InitThreads
    /\ sleepingThreadList = << >>
    /\ InitPolicy
    /\ InitStatistics
    /\ \E count \in Indeterminate, total \in Indeterminate,
          max \in Indeterminate, min \in Indeterminate :
          InitBurstStats(count, total, max, min)
    /\ NoSleepStats

NextBurst == DoSegmentYieldCPU \/ DoSegmentExit

SpecBurst == InitBurst /\ [][NextBurst]_vars

\* ----- stack overflow ------------------------------------------------------------

\* The running thread grows its stack past the end and overwrites the
\* sentinel word.
StackOverflow(s) == [s EXCEPT !.stack[s.currentThread] = "overwritten"]

DoStackOverflow ==
    /\ Running
    /\ stack[currentThread] = "intact"
    /\ Becomes(StackOverflow(St), Op("StackOverflow", currentThread, 0, 0))

\* Thread operations that end in Schedule, with stack overflow.
NextStack ==
    \/ DoNewThread
    \/ DoThreadFork
    \/ DoYieldCPU
    \/ DoFinishThread
    \/ DoExit
    \/ DoSortedInsertInWaitQueue
    \/ DoTimerInterrupt
    \/ DoIdle
    \/ DoStackOverflow

SpecStack == Init /\ [][NextStack]_vars

\* ----- FIFO scheduling of threads that all give up the CPU -----------------------

\* A thread that runs when the bound on ThreadIsReadyToRun calls is reached
\* ends, which puts no thread on the ready list.
DoFinishThreadAtBound ==
    /\ sim = "running" /\ ~idling
    /\ pc[currentThread] = "run"
    /\ nReady >= MaxReady
    /\ Becomes(FinishThread(St), Op("FinishThread", currentThread, 1, 0))

\* The current thread is executing its own code: one of the calls of
\* GiveUpCPU is enabled.
Executing ==
    /\ sim = "running" /\ ~idling
    /\ pc[currentThread] = "run"

\* The calls by which the running thread gives up the CPU.
GiveUpCPU ==
    \/ DoYieldCPU
    \/ DoSortedInsertInWaitQueue
    \/ DoFinishThread
    \/ DoSysExit
    \/ DoFinishThreadAtBound

NextFifo ==
    \/ DoNewThread
    \/ DoThreadFork
    \/ DoTimerInterrupt
    \/ DoIdle
    \/ GiveUpCPU

\* A step of GiveUpCPU, told by the operation it records.
GaveUpCPU ==
    lastOp'.op \in {"YieldCPU", "SortedInsertInWaitQueue", "FinishThread", "Exit"}

\* Every running thread eventually gives up the CPU: weak fairness of
\* GiveUpCPU, which is enabled exactly when Executing holds.
FairGiveUpCPU == []<>(~Executing) \/ []<><<GaveUpCPU>>_vars

SpecFifo == Init /\ [][NextFifo]_vars /\ FairGiveUpCPU

\* ----- the time threads spend blocked ------------------------------------------

InitSleep ==
    /\ InitThreads
    /\ sleepingThreadList = << >>
    /\ InitPolicy
    /\ InitStatistics
    /\ InitBurstStats(0, 0, 0, 0)
    /\ InitSleepTime({0, MaxTicks})

\* The operations that block a thread or make a blocked thread ready, and
\* those on which they depend.
NextSleep ==
    \/ DoNewThread
    \/ DoThreadFork
    \/ DoJoinWithChild
    \/ DoJoinSet
    \/ DoJoinSleep
    \/ DoExit
    \/ DoSortedInsertInWaitQueue
    \/ DoTimerInterrupt
    \/ DoIdle

SpecSleep == InitSleep /\ [][NextSleep]_vars

\* ----- calls the contract forbids ----------------------------------------------

\* A running thread calls PutThreadToSleep without disabling interrupts.
DoCallPutThreadToSleep ==
    /\ Running
    /\ Becomes(PutThreadToSleep(St, "sleep_ret"),
               Op("CallPutThreadToSleep", currentThread, 0, 0))

\* A running thread calls scheduler->ThreadIsReadyToRun on a thread it has
\* created, without disabling interrupts.
DoCallThreadIsReadyToRun ==
    /\ Running
    /\ \E t \in live :
          /\ status[t] = "JUST_CREATED"
          /\ Becomes(ThreadIsReadyToRun(St, t),
                     Op("CallThreadIsReadyToRun", currentThread, t, 0))

\* A running thread calls scheduler->FindNextThreadToRun without disabling
\* interrupts.
DoCallFindNextThreadToRun ==
    /\ Running
    /\ Becomes(RemoveFront(St),
               Op("CallFindNextThreadToRun", currentThread, FindNextThreadToRun(St), 0))

\* A running thread takes the next thread with FindNextThreadToRun and calls
\* scheduler->Schedule on it, without disabling interrupts.
DoCallSchedule ==
    /\ Running
    /\ FindNextThreadToRun(St) # NULL
    /\ Becomes(Schedule(RemoveFront(St), FindNextThreadToRun(St)),
               Op("CallSchedule", currentThread, FindNextThreadToRun(St), 0))

\* JoinWithChild with an index that is no child slot of the caller.  The
\* slots from childcount on hold false since the constructor (thread.cc:63);
\* a negative index reads outside exitedChild[] and childexitcode[]: the read
\* faults, or gives either truth value, and the code returned is any value.
JoinWithChildUnregistered(s, whichchild, outside, code) ==
    LET t == s.currentThread
        s1 == [s EXCEPT !.joinArg[t] = whichchild]
        exited == IF whichchild >= 0 THEN FALSE ELSE outside = "true"
    IN  IF whichchild < 0 /\ outside = "fault"
        THEN [s1 EXCEPT !.sim = "fault"]
        ELSE IF ~exited
             THEN [s1 EXCEPT !.pc[t] = "join_set"]
             ELSE [s1 EXCEPT !.joinResult[t] = code]

DoJoinUnregistered ==
    /\ Running
    /\ \E whichchild \in {-1, Len(childpidArray[currentThread])},
          outside \in {"fault", "false", "true"}, code \in ExitCodes :
          Becomes(JoinWithChildUnregistered(St, whichchild, outside, code),
                  Op("JoinUnregistered", currentThread, whichchild, 0))

NextMisuse ==
    \/ DoNewThread
    \/ DoThreadFork
    \/ DoYieldCPU
    \/ DoJoinSet
    \/ DoJoinSleep
    \/ DoCallPutThreadToSleep
    \/ DoCallThreadIsReadyToRun
    \/ DoCallFindNextThreadToRun
    \/ DoCallSchedule
    \/ DoJoinUnregistered

SpecMisuse == Init /\ [][NextMisuse]_vars

\* ----- helpers of the properties ----------------------------------------------

Count(seq, x) == Cardinality({i \in 1..Len(seq) : seq[i] = x})

InReady(t) == Count(readyThreadList, t) > 0
InSleeping(t) == Count(sleepingThreadList, t) > 0
InWaitQueue(t) == \E i \in 1..Len(sleepQueueHead) : sleepQueueHead[i].thread = t

RunningThreads == {t \in live : status[t] = "RUNNING"}

Created == 0 .. (thread_index - 1)

\* ----- C1 ---------------------------------------------------------------------

\* C1: under the FIFO policy threads are dispatched in exactly the order in
\* which ThreadIsReadyToRun made them Ready: the k-th dispatch is the thread
\* of the k-th ThreadIsReadyToRun call, and the threads still waiting stand
\* in the ready list in the order of their calls, so that a yielding thread
\* (the latest call) is at the tail.
C1_FifoDispatchOrder ==
    /\ nDispatched > 0 => lastDispatched = nDispatched
    /\ nReady = nDispatched + Len(readyThreadList)
    /\ \A i \in 1..Len(readyThreadList) :
          readySeq[readyThreadList[i]] = nDispatched + i

\* A thread has yielded while others were ready and stands at the tail.
C1_Witness ==
    /\ lastOp.op = "YieldCPU"
    /\ nDispatched >= 3
    /\ Len(readyThreadList) >= 2
    /\ readyThreadList[Len(readyThreadList)] = lastOp.t
    /\ currentThread # lastOp.t

\* ----- C2 ---------------------------------------------------------------------

\* C2 as stated: in every reachable state of the running simulation exactly
\* one thread is Running, and it is currentThread (also while the CPU idles).
C2_ExactlyOneRunning ==
    sim = "running" => RunningThreads = {currentThread}

\* C2 amended: at most one thread is Running and it is currentThread; exactly
\* one is Running unless the CPU idles inside PutThreadToSleep or Exit, and
\* then currentThread is Blocked and no thread is Running.
C2_AtMostOneRunning ==
    sim = "running" =>
        /\ RunningThreads \subseteq {currentThread}
        /\ ~idling => RunningThreads = {currentThread}
        /\ idling => RunningThreads = {} /\ status[currentThread] = "BLOCKED"

\* The CPU idles in PutThreadToSleep with other threads alive.
C2_Witness ==
    /\ sim = "running"
    /\ idling
    /\ status[currentThread] = "BLOCKED"
    /\ pc[currentThread] # "dead"
    /\ Cardinality(live) >= 2

\* ----- C3 ---------------------------------------------------------------------

C4_NeverDestroyCurrent ==
    /\ sim # "assert_destroy_current"
    /\ \A t \in Created : t \notin live => currentThread # t

\* A thread that finished has been deleted by its successor.
C4_Witness ==
    /\ sim = "running"
    /\ \E t \in Created : t \notin live /\ pc[t] = "dead"
    /\ threadToBeDestroyed = NULL

\* ----- C5 ---------------------------------------------------------------------

\* C5: a thread marked for destruction is destroyed as soon as the context
\* transfer away from it completes: a marked, undestroyed thread exists
\* only while it still holds the CPU (it is currentThread).
C5_DestroyedAtSwitch ==
    (sim = "running" /\ threadToBeDestroyed # NULL) =>
        threadToBeDestroyed = currentThread

\* ----- C6 ---------------------------------------------------------------------

\* C6: JoinWithChild(i) on a child whose exit is already recorded returns the
\* code that child passed to Exit without blocking: the caller stays
\* Running and current, waitchild_id is not set, no queue or thread state
\* changes.
C6_JoinExitedStep ==
    LET t == currentThread
        i == lastOp'.a
    IN  (lastOp'.op = "JoinWithChild" /\ exitedChild[t][i + 1]) =>
            /\ joinResult'[t] = exitedWith[childpidArray[t][i + 1]]
            /\ joinResult'[t] = childexitcode[t][i + 1]
            /\ currentThread' = t
            /\ status' = status
            /\ pc' = pc
            /\ waitchild_id' = waitchild_id
            /\ readyThreadList' = readyThreadList
            /\ sleepingThreadList' = sleepingThreadList
            /\ sleepQueueHead' = sleepQueueHead
            /\ idling' = idling /\ sim' = sim

C6_JoinExitedReturnsAtOnce == [][C6_JoinExitedStep]_vars

\* The current thread has joined a child that had exited with code 1.
C6_Witness ==
    /\ lastOp.op = "JoinWithChild"
    /\ lastOp.b = 1
    /\ currentThread = lastOp.t
    /\ status[currentThread] = "RUNNING"
    /\ joinResult[currentThread] = 1

\* ----- C7 ---------------------------------------------------------------------

\* C7: no lost wake-up in join: a parent never sleeps in JoinWithChild,
\* registered as waiting on a child (waitchild_id), when that child's exit is
\* already recorded; for then no later Exit wakes it.
C7_NoLostWakeup ==
    sim = "running" =>
        \A p \in live :
            (status[p] = "BLOCKED" /\ pc[p] = "join_ret" /\ waitchild_id[p] # -1)
                => ~exitedChild[p][waitchild_id[p] + 1]

\* ----- C8 ---------------------------------------------------------------------

\* C8: when a thread calls Exit(code) and its parent has not exited, the
\* parent's slot for the child gets exited = true and exitCode = code; the
\* parent is made Ready iff it was blocked with waitchild_id equal to that
\* slot (and then waitchild_id is reset); otherwise it is not woken and its
\* waitchild_id is unchanged.  When the parent has exited nothing is written.
C8_ExitStep ==
    LET t == currentThread
        p == ppid[t]
        code == lastOp'.a
        woken == nReady' = nReady + 1
    IN  (lastOp'.op = "Exit" /\ p # -1) =>
          /\ (p \in live /\ ~exitThreadArray[p]) =>
                LET i == CHOOSE j \in 1..Len(childpidArray[p]) : childpidArray[p][j] = t
                IN  /\ exitedChild'[p][i]
                    /\ childexitcode'[p][i] = code
                    /\ \A j \in 1..Len(childpidArray[p]) :
                          j # i => /\ exitedChild'[p][j] = exitedChild[p][j]
                                   /\ childexitcode'[p][j] = childexitcode[p][j]
                    /\ woken <=> (status[p] = "BLOCKED" /\ waitchild_id[p] = i - 1)
                    /\ woken => waitchild_id'[p] = -1
                    /\ ~woken => waitchild_id'[p] = waitchild_id[p]
          /\ exitThreadArray[p] =>
                /\ exitedChild'[p] = exitedChild[p]
                /\ childexitcode'[p] = childexitcode[p]
                /\ waitchild_id'[p] = waitchild_id[p]
                /\ ~woken

C9_ExitRecordedOnce ==
    \A p \in live :
        /\ \A i \in 1..Len(nSetExit[p]) :
              /\ nSetExit[p][i] <= 1
              /\ exitedChild[p][i] <=> nSetExit[p][i] = 1
        /\ \A i, j \in 1..Len(childpidArray[p]) :
              i # j => childpidArray[p][i] # childpidArray[p][j]

\* Two children of one thread have each recorded their exit.
C9_Witness ==
    \E p \in live :
        /\ Len(nSetExit[p]) >= 2
        /\ nSetExit[p][1] = 1
        /\ nSetExit[p][2] = 1
        /\ sim = "running"

\* ----- C10 --------------------------------------------------------------------

\* C10: in Exit, when the ready list is empty after the parent notification
\* the simulation halts if terminateSim, and otherwise the CPU idles with
\* the exiting thread still current; when the ready list is not empty its
\* head is dispatched and the simulation does not halt, whatever
\* terminateSim.  The idling exiting thread dispatches the first thread a
\* timer wake-up puts on the ready list in the same pass of its loop.
C10_ExitStep ==
    LET t == currentThread
        terminateSim == lastOp'.b = 1
        woken == nReady' = nReady + 1
        emptyAfter == readyThreadList = << >> /\ ~woken
        completed == sim' \in {"running", "halted"}
    IN  (lastOp'.op = "Exit" /\ completed) =>
          /\ (emptyAfter /\ terminateSim) => sim' = "halted"
          /\ (emptyAfter /\ ~terminateSim) =>
                sim' = "running" /\ idling' /\ currentThread' = t
          /\ ~emptyAfter =>
                /\ sim' = "running"
                /\ ~idling'
                /\ currentThread' = (IF readyThreadList # << >>
                                     THEN Head(readyThreadList) ELSE ppid[t])

C10_IdleStep ==
    (lastOp'.op = "Idle" /\ exitedWith[currentThread] # NULL) =>
        IF nReady' > nReady
        THEN /\ ~idling'
             /\ currentThread' = Head(sleepQueueHead).thread
             /\ status'[currentThread'] = "RUNNING"
        ELSE idling' /\ currentThread' = currentThread

C10_ExitHaltsOrIdles ==
    [][C10_ExitStep /\ C10_IdleStep /\ (idling' => readyThreadList' = << >>)]_vars

\* An exiting thread idled, a timer wake-up made a sleeper ready, and the
\* sleeper was dispatched.
C10_Witness ==
    /\ lastOp.op = "Idle"
    /\ exitedWith[lastOp.t] # NULL
    /\ lastOp.b = 0
    /\ currentThread # lastOp.t
    /\ status[currentThread] = "RUNNING"
    /\ sim = "running"

\* The simulation has halted in Exit.
C10_WitnessHalt == sim = "halted" /\ lastOp.op = "Exit" /\ lastOp.b = 1

\* ----- C11 --------------------------------------------------------------------

\* C11: RemoveSleepingThread called for a thread that is not in the sleeping
\* set returns NULL, leaves the contents of the set unchanged and does not
\* fault, for every sleeping set including the empty one.
C11_Step ==
    (lastOp'.op = "RemoveSleepingThread" /\ ~InSleeping(lastOp'.t)) =>
        /\ lastOp'.a = NULL
        /\ sim' = "running"
        /\ \A t \in Threads :
              Count(sleepingThreadList', t) = Count(sleepingThreadList, t)

C11_NotFoundLeavesSetAlone == [][C11_Step]_vars

\* ----- C12 --------------------------------------------------------------------

\* C12: RemoveSleepingThread never loops indefinitely: whether or not the
\* target is in the set, the do-while scan ends after at most as many
\* iterations as the set has threads (none when the target is at the head,
\* and none on the empty set, where the call ends before the loop).
C12_Step ==
    lastOp'.op = "RemoveSleepingThread" =>
        /\ sim' # "hang"
        /\ lastOp'.b <= Len(sleepingThreadList)
        /\ (~InSleeping(lastOp'.t) /\ sleepingThreadList # << >>) =>
               lastOp'.b = Len(sleepingThreadList)

C12_ScanTerminates == [][C12_Step]_vars

\* The scan has gone round a set of three threads without finding the target.
C12_Witness ==
    /\ lastOp.op = "RemoveSleepingThread"
    /\ lastOp.a = NULL
    /\ lastOp.b = 3
    /\ Len(sleepingThreadList) = 3
    /\ sim = "running"

\* ----- C13 --------------------------------------------------------------------

\* C13: the time-sorted wait queue is always in ascending order of wake
\* deadline, and SortedInsertInWaitQueue(when) links the caller's entry
\* after every entry with a deadline <= when and before every entry with a
\* greater deadline, leaving the other entries in their order: entries with
\* equal deadlines stand in insertion order.
C13_Ascending ==
    \A i, j \in 1..Len(sleepQueueHead) :
        i < j => sleepQueueHead[i].when <= sleepQueueHead[j].when

C13_InsertStep ==
    lastOp'.op = "SortedInsertInWaitQueue" =>
        \E k \in 1..(Len(sleepQueueHead) + 1) :
            /\ sleepQueueHead' =
                  SubSeq(sleepQueueHead, 1, k - 1)
                     \o << [thread |-> currentThread, when |-> lastOp'.a] >>
                     \o SubSeq(sleepQueueHead, k, Len(sleepQueueHead))
            /\ \A i \in 1..(k - 1) : sleepQueueHead[i].when <= lastOp'.a
            /\ \A i \in k..Len(sleepQueueHead) : sleepQueueHead[i].when > lastOp'.a

C13_SortedStableInsert == []C13_Ascending /\ [][C13_InsertStep]_vars

\* The last call linked its entry behind an entry with the same deadline
\* and in front of one with a greater deadline.
C13_Witness ==
    /\ lastOp.op = "SortedInsertInWaitQueue"
    /\ Len(sleepQueueHead) = 3
    /\ sleepQueueHead[1].when = lastOp.a
    /\ sleepQueueHead[2] = [thread |-> lastOp.t, when |-> lastOp.a]
    /\ sleepQueueHead[3].when > lastOp.a

\* ----- C14 --------------------------------------------------------------------

\* C14: YieldCPU called when no other thread is ready is a scheduling no-op:
\* when it returns the caller is still currentThread and Running, the ready
\* list is empty again, and nothing but the caller's statistics has changed:
\* no thread's state, no queue, no thread object, no pending destruction.
C14_Step ==
    (lastOp'.op = "YieldCPU" /\ readyThreadList = << >>) =>
        /\ sim' = "running"
        /\ currentThread' = currentThread
        /\ status'[currentThread] = "RUNNING"
        /\ readyThreadList' = << >>
        /\ status' = status
        /\ live' = live
        /\ threadToBeDestroyed' = threadToBeDestroyed
        /\ sleepingThreadList' = sleepingThreadList
        /\ sleepQueueHead' = sleepQueueHead
        /\ pc' = pc
        /\ intLevel' = intLevel

C14_YieldAloneIsNoOp == [][C14_Step]_vars

\* ----- C15 --------------------------------------------------------------------

\* C15 as stated: under a decay-priority policy (schedAlgo >= 7) a thread
\* that keeps consuming large bursts (every burst of it so far was MaxBurst)
\* and is still scheduled (not exited) strictly increases its threadPriority
\* at each of its UpdateStats calls, and its threadPriority never decreases
\* at any UpdateStats call, its own or another thread's.
C15_RisingStep ==
    (schedAlgo >= 7 /\ lastOp'.op = "UpdateStats") =>
        \A i \in Threads :
            (sameBurst'[i] = MaxBurst /\ ~exitThreadArray'[i]) =>
                /\ threadPriority'[i] >= threadPriority[i]
                /\ i = lastOp'.t => threadPriority'[i] > threadPriority[i]

C15_PriorityKeepsRising == [][C15_RisingStep]_vars

\* C15 amended: threadPriority is threadBasePriority + threadCpuCount/2 and
\* threadCpuCount never exceeds the largest burst, so the priority is
\* bounded; at a thread's own UpdateStats call with a positive burst b its
\* priority does not decrease when b >= threadCpuCount and strictly
\* increases when b >= threadCpuCount + 4; at every other UpdateStats call
\* (another thread's, or its own with a zero burst) its threadCpuCount is
\* halved and its priority does not increase.
C15_Bounded ==
    \A i \in Threads :
        /\ threadCpuCount[i] <= MaxBurst
        /\ threadPriority[i] = (IF threadBasePriority[i] = 0 THEN 0
                                ELSE threadBasePriority[i] + threadCpuCount[i] \div 2)

C15_DecayStep ==
    (schedAlgo >= 7 /\ lastOp'.op = "UpdateStats") =>
        \A i \in Threads :
            (~exitThreadArray'[i] /\ threadBasePriority[i] # 0) =>
                IF i = lastOp'.t /\ lastOp'.a > 0
                THEN /\ threadCpuCount'[i] = (threadCpuCount[i] + lastOp'.a) \div 2
                     /\ lastOp'.a >= threadCpuCount[i] =>
                           threadPriority'[i] >= threadPriority[i]
                     /\ lastOp'.a >= threadCpuCount[i] + 4 =>
                           threadPriority'[i] > threadPriority[i]
                ELSE /\ threadCpuCount'[i] = threadCpuCount[i] \div 2
                     /\ threadPriority'[i] <= threadPriority[i]

C15_PriorityDecays == []C15_Bounded /\ [][C15_DecayStep]_vars

\* A thread consumed a burst of MaxBurst, and the UpdateStats call of
\* another thread has halved its threadCpuCount since.
C15_Witness ==
    /\ schedAlgo >= 7
    /\ lastOp.op = "UpdateStats"
    /\ \E i \in Threads :
          /\ i # lastOp.t
          /\ ~exitThreadArray[i]
          /\ nUpdateStats[i] = 1
          /\ sameBurst[i] = MaxBurst
          /\ threadCpuCount[i] = (MaxBurst \div 2) \div 2
          /\ threadPriority[i] < threadBasePriority[i] + (MaxBurst \div 2) \div 2 + 1

\* ----- C16 --------------------------------------------------------------------

\* C16 as stated: under the shortest-job prediction (schedAlgo = 2) the
\* prediction of a thread whose every burst has the same length B > 0
\* reaches B after a bounded number of UpdateStats calls; so it never rests
\* at another value: a call that leaves the prediction as it was finds it
\* equal to B.
C16_RestStep ==
    LET t == lastOp'.t
    IN  (/\ schedAlgo = 2
         /\ lastOp'.op = "UpdateStats"
         /\ lastOp'.a > 0
         /\ sameBurst'[t] = lastOp'.a
         /\ burstPredict'[t] = burstPredict[t])
        => burstPredict[t] = Frac(lastOp'.a, 1)

C16_PredictionReachesBurst == [][C16_RestStep]_vars

\* C16 amended: at an UpdateStats call with burst B > 0 the prediction never
\* moves away from B nor past it, and it comes strictly closer whenever it
\* is at least 1/SJP_RATIO away from B; it need not reach B: an integer
\* prediction less than 1/SJP_RATIO below B stays where it is, and a
\* fractional prediction other than B comes closer without being B.
C16_PredictStep ==
    LET t == lastOp'.t
        B == Frac(lastOp'.a, 1)
        old == burstPredict[t]
        new == burstPredict'[t]
        far == ~FracLess(FracMul(SJP_RATIO, FracDist(old, B)), Frac(1, 1))
    IN  (schedAlgo = 2 /\ lastOp'.op = "UpdateStats" /\ lastOp'.a > 0) =>
            /\ ~FracLess(old, B) => ~FracLess(new, B) /\ ~FracLess(old, new)
            /\ ~FracLess(B, old) => ~FracLess(B, new) /\ ~FracLess(new, old)
            /\ far => FracLess(FracDist(new, B), FracDist(old, B))
            /\ (burstPredictIsInt /\ FracLess(old, B) /\ ~far) => new = old
            /\ (~burstPredictIsInt /\ old # B) =>
                   /\ new # B
                   /\ FracLess(FracDist(new, B), FracDist(old, B))

C16_PredictionApproachesBurst == [][C16_PredictStep]_vars

\* After MaxUpdates bursts of MaxBurst an integer prediction rests below
\* MaxBurst.
C16_Witness ==
    /\ schedAlgo = 2
    /\ lastOp.op = "UpdateStats"
    /\ burstPredictIsInt
    /\ nUpdateStats[lastOp.t] = MaxUpdates
    /\ sameBurst[lastOp.t] = MaxBurst
    /\ FracLess(burstPredict[lastOp.t], Frac(MaxBurst, 1))
    /\ FracLess(FracMul(SJP_RATIO, FracDist(burstPredict[lastOp.t], Frac(MaxBurst, 1))),
                Frac(1, 1))

\* ----- C17 --------------------------------------------------------------------

\* The scenario of C17: the root thread (pid 0) forked A (pid 1) and A
\* forked B (pid 2); A and B have both called Exit; the root thread runs.
C17_Scenario ==
    /\ thread_index >= 3
    /\ ppid[1] = 0
    /\ ppid[2] = 1
    /\ 0 \in live

C17_BothExited ==
    /\ C17_Scenario
    /\ exitedWith[1] # NULL
    /\ exitedWith[2] # NULL
    /\ sim = "running" /\ ~idling
    /\ currentThread = 0 /\ pc[0] = "run"

\* C17 as stated: in the scenario the root thread obtains through
\* JoinWithChild the exit codes of both A and B: it has a child slot for
\* each of them, whose recorded code is the value that thread passed to Exit.
C17_RootJoinsBoth ==
    C17_BothExited =>
        \A c \in {1, 2} :
            \E i \in 1..Len(childpidArray[0]) :
                /\ childpidArray[0][i] = c
                /\ exitedChild[0][i]
                /\ childexitcode[0][i] = exitedWith[c]

\* C17 amended: B is registered as a child of A, not of the root thread:
\* the root thread has the one child slot of A and obtains through
\* JoinWithChild(0) the value A passed to Exit, whether the call blocks or
\* not; the code of B is recorded only in the slot A has for B.
C17_Slots ==
    C17_Scenario =>
        /\ childpidArray[0] = << 1 >>
        /\ (exitedWith[1] # NULL /\ ~exitThreadArray[0]) =>
               exitedChild[0][1] /\ childexitcode[0][1] = exitedWith[1]
        /\ 1 \in live =>
               /\ childpidArray[1] = << 2 >>
               /\ exitedChild[1][1] => childexitcode[1][1] = exitedWith[2]

C17_JoinStep ==
    (/\ C17_Scenario
     /\ \/ lastOp'.op = "JoinWithChild" /\ lastOp'.t = 0 /\ lastOp'.b = 1
        \/ pc[0] = "join_ret" /\ pc'[0] = "run")
    => /\ joinArg'[0] = 0
       /\ exitedWith'[1] # NULL
       /\ joinResult'[0] = exitedWith'[1]

C17_RootJoinsItsChild == []C17_Slots /\ [][C17_JoinStep]_vars

\* A and B have both exited and the root thread, woken from JoinWithChild(0)
\* by the exit of A, has the code 1 that A passed to Exit.
C17_Witness ==
    /\ C17_BothExited
    /\ exitedWith[1] = 1
    /\ joinResult[0] = 1
    /\ exitedChild[0][1]
    /\ waitchild_id[0] = -1
    /\ nDispatched >= 3

\* ----- C18 --------------------------------------------------------------------

\* The structures C18 names: the ready queue, the sleeping set, the
\* time-sorted wait queue, the currentThread pointer, and the waiting-on-child
\* and exit-code fields.
C18_Structures ==
    {"readyThreadList", "sleepingThreadList", "sleepQueueHead",
     "currentThread", "waitchild_id", "childexitcode"}

\* C18: every write to the ready queue, the sleeping set, the time-sorted
\* wait queue and currentThread happens with interrupts disabled, and so do
\* the list insertion of SortedInsertInWaitQueue and the waiting-on-child and
\* exit-code writes of JoinWithChild and SetChildExitCode: no step writes
\* one of them while interrupts are enabled.
C18_MutationsAreAtomic == unprotected \cap C18_Structures = {}

\* ----- C19 --------------------------------------------------------------------

C19_Calls ==
    {"CallPutThreadToSleep", "CallThreadIsReadyToRun",
     "CallFindNextThreadToRun", "CallSchedule"}

\* C19: a call of PutThreadToSleep, ThreadIsReadyToRun, FindNextThreadToRun
\* or Schedule made with interrupts enabled aborts the simulation and leaves
\* the scheduler state as it was.
C19_Step ==
    (lastOp'.op \in C19_Calls /\ intLevel = "IntOn") =>
        /\ sim' = "assert_int_off"
        /\ readyThreadList' = readyThreadList
        /\ currentThread' = currentThread
        /\ status' = status

C19_CallOutsideAtomicRegionAborts == [][C19_Step]_vars

\* ----- C20 --------------------------------------------------------------------

\* C20: JoinWithChild with an index that is no registered child slot of the
\* caller aborts the simulation: the caller is not on its way to sleep and
\* no value is returned to it.
C20_Step ==
    lastOp'.op = "JoinUnregistered" =>
        /\ sim' # "running"
        /\ pc' = pc
        /\ joinResult' = joinResult

C20_UnregisteredJoinAborts == [][C20_Step]_vars

\* ----- C21 --------------------------------------------------------------------

\* C21: thread creation aborts the simulation exactly when it would exceed
\* the capacity: it succeeds whenever fewer than MAX_THREAD_COUNT threads are
\* live, and when it aborts no thread table slot has been written.
C21_Step ==
    lastOp'.op = "NewThread" =>
        /\ (sim' = "assert_thread_count") <=> ~(Cardinality(live) < MAX_THREAD_COUNT)
        /\ sim' = "assert_thread_count" =>
               /\ live' = live
               /\ status' = status
               /\ thread_index' = thread_index

C21_CreationAbortsAtCapacity == [][C21_Step]_vars

\* ----- C22 --------------------------------------------------------------------

\* C22: Schedule checks the sentinel of the thread it transfers away from
\* when that thread owns a stack: no dispatch leaves a thread whose sentinel
\* is overwritten; the simulation aborts on the stack check only for such a
\* thread, with currentThread not changed and no transfer made; the root
\* thread, which has no stack, never fails the check.
C22_Step ==
    /\ nDispatched' # nDispatched => stack[currentThread] # "overwritten"
    /\ (sim = "running" /\ sim' = "assert_stack") =>
           /\ stack[currentThread] = "overwritten"
           /\ currentThread' = currentThread
           /\ nDispatched' = nDispatched
    /\ (stack[currentThread] = "overwritten" /\ sim' = "running"
            /\ lastOp'.op \in {"YieldCPU", "FinishThread", "Exit", "JoinSleep",
                               "SortedInsertInWaitQueue", "SleepOnSet"})
           => idling'

C22_NoStack == stack[0] = "NULL"

C22_StackCheckedBeforeTransfer == []C22_NoStack /\ [][C22_Step]_vars

\* A forked thread that overwrote its sentinel called YieldCPU with another
\* thread ready, and the simulation stopped in Schedule's stack check.
C22_Witness ==
    /\ sim = "assert_stack"
    /\ lastOp.op = "YieldCPU"
    /\ stack[currentThread] = "overwritten"
    /\ currentThread # 0
    /\ readyThreadList # << >>
    /\ nDispatched >= 2

\* ----- C23 --------------------------------------------------------------------

\* C23: RemoveSleepingThread called for a thread that is in the sleeping set
\* returns that thread and takes exactly its entry out: every other thread is
\* in the set as many times as before, whatever the position of the target.
C23_Step ==
    (lastOp'.op = "RemoveSleepingThread" /\ InSleeping(lastOp'.t)) =>
        /\ lastOp'.a = lastOp'.t
        /\ sim' = "running"
        /\ Len(sleepingThreadList') = Len(sleepingThreadList) - 1
        /\ \A t \in Threads :
              Count(sleepingThreadList', t) =
                 IF t = lastOp'.t THEN Count(sleepingThreadList, t) - 1
                 ELSE Count(sleepingThreadList, t)

C24_BurstStatisticsExact ==
    \A t \in live :
        recorded[t].n > 0 =>
            /\ minCPUburst[t] = recorded[t].min
            /\ maxCPUburst[t] = recorded[t].max
            /\ totalCPUburst[t] = recorded[t].sum
            /\ numCPUburst[t] = recorded[t].n

\* ----- C25 --------------------------------------------------------------------

\* C25: an UpdateStats call whose burst is zero changes nothing, under every
\* scheduling policy: the burst statistics, every thread's threadCpuCount and
\* threadPriority, the caller's burstPredict and the accumulated
\* EstimationError are what they were.
C25_Step ==
    (lastOp'.op = "UpdateStats" /\ lastOp'.a = 0) =>
        /\ numCPUburst' = numCPUburst
        /\ totalCPUburst' = totalCPUburst
        /\ maxCPUburst' = maxCPUburst
        /\ minCPUburst' = minCPUburst
        /\ prevBurst' = prevBurst
        /\ threadCpuCount' = threadCpuCount
        /\ threadPriority' = threadPriority
        /\ burstPredict'[lastOp'.t] = burstPredict[lastOp'.t]
        /\ EstimationError' = EstimationError

C25_ZeroBurstChangesNothing == [][C25_Step]_vars

\* ----- C26 --------------------------------------------------------------------

\* The burst the decay loop folds in for thread i at an UpdateStats call of
\* thread t with burst b: b for the caller if it is positive, else prevBurst.
C26_LastBurst(i) ==
    IF i = lastOp'.t /\ lastOp'.a > 0 THEN lastOp'.a ELSE prevBurst[i]

\* C26: under a decay-priority policy, after every UpdateStats call each
\* created thread that has not exited has threadCpuCount' = (threadCpuCount +
\* prevBurst) / 2, threadPriority' = threadBasePriority + threadCpuCount' / 2
\* and prevBurst' = 0, whatever its base priority, and the entries of the
\* threads that have exited are unchanged.
C26_Step ==
    (schedAlgo >= 7 /\ lastOp'.op = "UpdateStats") =>
        \A i \in 0 .. (thread_index - 1) :
            IF ~exitThreadArray'[i]
            THEN /\ threadCpuCount'[i] = (threadCpuCount[i] + C26_LastBurst(i)) \div 2
                 /\ threadPriority'[i] = threadBasePriority[i] + threadCpuCount'[i] \div 2
                 /\ prevBurst'[i] = 0
            ELSE /\ threadCpuCount'[i] = threadCpuCount[i]
                 /\ threadPriority'[i] = threadPriority[i]

C26_DecayFoldsEveryLiveThread == [][C26_Step]_vars

\* ----- C27 --------------------------------------------------------------------

\* The constructor calls of the run that ran to their end.
C27_Completed ==
    IF sim = "assert_thread_count" THEN 1 .. (Len(created) - 1)
    ELSE 1 .. Len(created)

\* C27: the k-th thread created in the run has pid k - 1, so no two threads
\* created in the run have the same pid, destroyed ones included, and the ppid
\* of each is the pid of the thread that was currentThread at its creation,
\* -1 for the root thread created under no current thread.
C27_PidsUniqueAndDense ==
    /\ thread_index = Len(created)
    /\ \A k \in 1 .. Len(created) : created[k].pid = k - 1
    /\ \A k \in C27_Completed :
          ppid[created[k].pid] = IF created[k].creator = NULL THEN -1
                                 ELSE created[k].creator

\* A thread is created after an earlier thread was destroyed, by a thread
\* other than the root thread.
C27_Witness ==
    /\ lastOp.op = "NewThread"
    /\ sim = "running"
    /\ \E k \in 1 .. Len(created) : created[k].pid \notin live
    /\ created[Len(created)].creator > 0

\* ----- C28 --------------------------------------------------------------------

\* The threads a step takes from blocked to ready, dispatched in the same
\* step or not.
C28_Woken == {t \in Threads : status[t] = "BLOCKED" /\ status'[t] \in {"READY", "RUNNING"}}

\* C28: whenever a blocked thread becomes ready, woken from the wait queue by
\* NachOSThread::Schedule or by SetChildExitCode at its child's exit, its
\* sleepTime grows by the ticks elapsed since its sleepstartTime.
C28_Step ==
    \A t \in C28_Woken :
        sleepTime'[t] = sleepTime[t] + (totalTicks' - sleepstartTime[t])

C28_SleepTimeCountsEveryWake == [][C28_Step]_vars

\* ----- C29 --------------------------------------------------------------------

\* The dispatches of a step.
C29_Dispatches == nDispatched' - nDispatched

\* A step dispatches at most one thread, the head of the ready list, and
\* every other waiting thread moves up by one place; a step without a
\* dispatch leaves every waiting thread at its place.
C29_MovesUp ==
    /\ C29_Dispatches \in {0, 1}
    /\ \A i \in 1 .. Len(readyThreadList) :
          IF i <= C29_Dispatches
          THEN /\ currentThread' = readyThreadList[i]
               /\ status'[readyThreadList[i]] = "RUNNING"
          ELSE /\ i - C29_Dispatches <= Len(readyThreadList')
               /\ readyThreadList'[i - C29_Dispatches] = readyThreadList[i]

\* A call by which the running thread gives up the CPU while threads are
\* ready dispatches one of them.
C29_Step ==
    /\ C29_MovesUp
    /\ (GaveUpCPU /\ readyThreadList # << >>) => C29_Dispatches = 1

\* C29: under the FIFO policy no ready thread starves: every call by which
\* the running thread gives up the CPU while threads are ready dispatches the
\* head of the ready list and moves every other waiting thread up by one
\* place, so that a thread behind n others on the ready list is dispatched
\* after n other dispatches.
C29_NoStarvationUnderFifo == [][C29_Step]_vars

\* The same but for the steps that end the simulation.
C29_StepWhileRunning == sim' = "running" => C29_Step

\* If every running thread eventually gives up the CPU, every thread on the
\* ready list is eventually dispatched or the simulation has ended, and as
\* long as it has not ended the waiting threads move up as C29 says.
C29_DispatchedUnlessEnded ==
    /\ \A t \in Threads :
          (status[t] = "READY" /\ sim = "running")
              ~> (status[t] = "RUNNING" \/ sim # "running")
    /\ [][C29_StepWhileRunning]_vars

\* ----- C30 --------------------------------------------------------------------

\* C30: whenever Exit calls SetChildExitCode on threadArray[ppid], which it
\* does if the exiting thread has a parent that is not marked exited, the
\* parent's thread object still exists, also when the parent has ended through
\* FinishThread.
C30_Step ==
    lastOp'.op = "Exit" =>
        LET p == ppid[lastOp'.t]
        IN  (p # -1 /\ ~exitThreadArray[p]) => p \in live

C30_ExitNeverReachesDestroyedParent == [][C30_Step]_vars

====
